---------------------------- MODULE Spec2Model ----------------------------
(***************************************************************************)
(* Model of the dynamic form renderer (renderer.js) and of the Save and    *)
(* Generate-DOCX triggers (script.js).                                     *)
(*                                                                         *)
(* The page is a single-threaded event loop: every action below is one     *)
(* handler (or one continuation of an async function after an await) run   *)
(* to completion.                                                          *)
(*                                                                         *)
(* The form rendering of script.js (renderSecao, renderFormulario,         *)
(* addEventListeners) rests on renderField, FORMULARIO_COMPLETO and app,   *)
(* which these two files do not define; it is left out.                    *)
(***************************************************************************)
EXTENDS Integers, Sequences, FiniteSets, TLC

VARIABLES
    schema,      \* the descriptor list served as ./perguntas.json
    perguntas,   \* renderer.js `perguntas`
    loadPc,      \* position of renderFormulario(): "fetch", "json", "done", "failed"
    sections,    \* children of #formulario: the (title, content) pairs, in order
    model,       \* renderer.js `model`: the own properties, in insertion order
    exported,    \* the last file downloaded by the JSON export, if any
    libs,        \* the global libraries defined on the page
    acts,        \* activations of the Save / Gerar DOCX handlers of script.js
    alerts,      \* every alert() shown so far
    uncaught     \* sources of errors that no handler caught

vars == <<schema, perguntas, loadPc, sections, model, exported, libs, acts, alerts, uncaught>>

---------------------------------------------------------------------------
(* Bounds *)

\* longest schema of the assembly specification
MaxLen == 4
\* longest schema of the form-input specification
MaxForm == 2
\* number of Save / Gerar DOCX clicks in a session
MaxActs == 2

---------------------------------------------------------------------------
(* Descriptors of perguntas.json *)

\* ids by position in the schema (unique; "dor_obs" is a legal id that
\* coincides with the observation key derived from "dor")
IdPool == <<"dor", "dor_obs", "x", "y", "z", "w">>

Item(t, i, txt, obs, opts) ==
    [type |-> t, id |-> i, text |-> txt, has_observation |-> obs, options |-> opts]

\* the kinds of descriptor the model draws: the two group markers, one field
\* of every type (sim_nao with and without observation), one unknown type
Variants ==
    {[type |-> "group", text |-> txt, has_observation |-> FALSE, options |-> <<>>] :
        txt \in {"A", "B"}}
    \cup {[type |-> t, text |-> "Q", has_observation |-> FALSE, options |-> <<>>] :
            t \in {"text", "number", "date", "textarea", "sim_nao", "foo"}}
    \cup {[type |-> "sim_nao", text |-> "Q", has_observation |-> TRUE, options |-> <<>>]}
    \cup {[type |-> "radio", text |-> "Q", has_observation |-> FALSE, options |-> <<"1", "2">>]}

\* the schema whose p-th descriptor is of kind f[p], with the p-th id
SchemaFrom(f) ==
    [p \in DOMAIN f |->
        Item(f[p].type, IF f[p].type = "group" THEN "" ELSE IdPool[p],
             f[p].text, f[p].has_observation, f[p].options)]

\* schema is one of the schemas of at most n descriptors
SchemaUpTo(n) ==
    \E len \in 0..n : \E f \in [1..len -> Variants] : schema = SchemaFrom(f)

\* the schemas of a full session: the examples of the form's documentation
SessionSchemas ==
    { <<Item("text", "ident_nome", "Nome", FALSE, <<>>)>>,
      <<Item("group", "", "A", FALSE, <<>>),
        Item("sim_nao", "dor", "Dor?", TRUE, <<>>)>>,
      <<Item("foo", "q", "?", FALSE, <<>>),
        Item("radio", "y", "Y", FALSE, <<"1", "2">>)>> }

---------------------------------------------------------------------------
(* The answer model: a JS object, i.e. key/value pairs in insertion order *)

Keys(m) == {m[i].key : i \in 1..Len(m)}

Has(m, k) == k \in Keys(m)

\* m[k] as a sequence: <<>> when k is absent, <<value>> when present
Lookup(m, k) ==
    IF Has(m, k) THEN <<m[CHOOSE i \in 1..Len(m) : m[i].key = k].value>> ELSE <<>>

\* assignment that rebuilds the object from the one property
AssignFresh(m, k, v) == <<[key |-> k, value |-> v]>>

\* the assignment m[k] = v: an existing property keeps its place, a new one
\* is added last
Assign(m, k, v) ==
    IF Has(m, k)
    THEN [i \in 1..Len(m) |-> IF m[i].key = k THEN [key |-> k, value |-> v] ELSE m[i]]
    ELSE Append(m, [key |-> k, value |-> v])

\* JSON.stringify(m, null, 2) of an object of string properties
RECURSIVE Members(_, _)
Members(m, i) ==
    IF i > Len(m) THEN ""
    ELSE "\n  \"" \o m[i].key \o "\": \"" \o m[i].value \o "\""
         \o (IF i < Len(m) THEN "," ELSE "") \o Members(m, i + 1)

Stringify(m) == IF Len(m) = 0 THEN "{}" ELSE "{" \o Members(m, 1) \o "\n}"

---------------------------------------------------------------------------
(* Field renderers: each returns one wrapper element with its bindings.    *)
(* A binding [ctl, on, key] is a listener on control ctl for event on that *)
(* stores the control's value under key.                                   *)

Bind(ctl, on, key) == [ctl |-> ctl, on |-> on, key |-> key]

Wrap(cls, item, binds) ==
    [cls |-> cls, type |-> item.type, id |-> item.id, label |-> item.text,
     options |-> item.options, binds |-> binds]

renderText(item) == Wrap("campo", item, {Bind("input", "input", item.id)})

renderNumber(item) == Wrap("campo", item, {Bind("input", "input", item.id)})

renderDate(item) == Wrap("campo", item, {Bind("input", "input", item.id)})

renderTextarea(item) == Wrap("campo", item, {Bind("textarea", "input", item.id)})

\* renderSimNao whose observation listener stores under the field's own id
renderSimNaoSameKey(item) ==
    Wrap("Ask", [item EXCEPT !.options = <<"Sim", "Não">>],
         {Bind("radio", "change", item.id)}
         \cup (IF item.has_observation
               THEN {Bind("obs", "input", item.id)}
               ELSE {}))

renderSimNao(item) ==
    Wrap("Ask", [item EXCEPT !.options = <<"Sim", "Não">>],
         {Bind("radio", "change", item.id)}
         \cup (IF item.has_observation
               THEN {Bind("obs", "input", item.id \o "_obs")}
               ELSE {}))

renderRadio(item) == Wrap("campo", item, {Bind("radio", "change", item.id)})

---------------------------------------------------------------------------
(* Sections and assembly *)

\* createSection that reuses the last section when the root has one
createSectionReuse(root, titleText) ==
    IF Len(root) = 0
    THEN <<[label |-> titleText, active |-> FALSE, open |-> FALSE, units |-> <<>>]>>
    ELSE Append(root, [label |-> root[Len(root)].label, active |-> FALSE, open |-> FALSE,
                       units |-> <<>>])

\* createSection: appends a title and an empty, closed content to the root
createSection(root, titleText) ==
    Append(root, [label |-> titleText, active |-> FALSE, open |-> FALSE, units |-> <<>>])

AppendChild(root, sec, unit) ==
    [root EXCEPT ![sec].units = Append(@, unit)]

\* renderItem with a fallback renderer for unknown types
renderItemFallback(item, root, sec) ==
    AppendChild(root, sec,
                IF item.type = "textarea" THEN renderTextarea(item)
                ELSE IF item.type = "sim_nao" THEN renderSimNao(item)
                ELSE IF item.type = "radio" THEN renderRadio(item)
                ELSE renderText(item))

\* renderItem: dispatch on item.type; an unknown type only logs a warning
renderItem(item, root, sec) ==
    CASE item.type = "text" -> AppendChild(root, sec, renderText(item))
      [] item.type = "number" -> AppendChild(root, sec, renderNumber(item))
      [] item.type = "date" -> AppendChild(root, sec, renderDate(item))
      [] item.type = "textarea" -> AppendChild(root, sec, renderTextarea(item))
      [] item.type = "sim_nao" -> AppendChild(root, sec, renderSimNao(item))
      [] item.type = "radio" -> AppendChild(root, sec, renderRadio(item))
      [] OTHER -> root

\* label of the section opened when a field comes before any group
DefaultLabel == "Geral"

\* forEach body that forgets to keep the default section it opened
RECURSIVE ForEachForgetful(_, _, _, _)
ForEachForgetful(items, i, root, secAtual) ==
    IF i > Len(items) THEN root
    ELSE IF items[i].type = "group"
         THEN ForEachForgetful(items, i + 1, createSection(root, items[i].text), Len(root) + 1)
         ELSE IF secAtual = 0
              THEN ForEachForgetful(items, i + 1,
                           renderItem(items[i], createSection(root, DefaultLabel), Len(root) + 1),
                           0)
              ELSE ForEachForgetful(items, i + 1, renderItem(items[i], root, secAtual), secAtual)

\* the body of perguntas.forEach, from item i on; secAtual = 0 is null
RECURSIVE ForEach(_, _, _, _)
ForEach(items, i, root, secAtual) ==
    IF i > Len(items) THEN root
    ELSE IF items[i].type = "group"
         THEN ForEach(items, i + 1, createSection(root, items[i].text), Len(root) + 1)
         ELSE IF secAtual = 0
              THEN ForEach(items, i + 1,
                           renderItem(items[i], createSection(root, DefaultLabel), Len(root) + 1),
                           Len(root) + 1)
              ELSE ForEach(items, i + 1, renderItem(items[i], root, secAtual), secAtual)

---------------------------------------------------------------------------
(* renderFormulario(): fetch, parse, assemble *)

\* fetch rejects: the source is unreachable
FetchReject ==
    /\ loadPc = "fetch"
    /\ loadPc' = "failed"
    /\ uncaught' = uncaught \cup {0}
    /\ UNCHANGED <<schema, perguntas, sections, model, exported, libs, acts, alerts>>

\* fetch resolution that reports a non-ok status to the user
FetchResolveAlerting(ok) ==
    /\ loadPc = "fetch"
    /\ IF ok
       THEN loadPc' = "json" /\ UNCHANGED <<uncaught, alerts>>
       ELSE /\ loadPc' = "failed"
            /\ uncaught' = uncaught
            /\ alerts' = Append(alerts, [by |-> 0, kind |-> "failure"])
    /\ UNCHANGED <<schema, perguntas, sections, model, exported, libs, acts>>

\* fetch resolution that assembles the form before the payload is parsed
FetchResolveEager(ok) ==
    /\ loadPc = "fetch"
    /\ IF ok
       THEN /\ loadPc' = "json"
            /\ sections' = ForEach(schema, 1, sections, 0)
            /\ UNCHANGED uncaught
       ELSE /\ loadPc' = "failed"
            /\ uncaught' = uncaught \cup {0}
            /\ UNCHANGED sections
    /\ UNCHANGED <<schema, perguntas, model, exported, libs, acts, alerts>>

\* fetch resolves; a non-ok status makes carregarPerguntas throw
FetchResolve(ok) ==
    /\ loadPc = "fetch"
    /\ IF ok
       THEN loadPc' = "json" /\ UNCHANGED uncaught
       ELSE loadPc' = "failed" /\ uncaught' = uncaught \cup {0}
    /\ UNCHANGED <<schema, perguntas, sections, model, exported, libs, acts, alerts>>

\* res.json() rejects: the payload is not well-formed
ParseReject ==
    /\ loadPc = "json"
    /\ loadPc' = "failed"
    /\ uncaught' = uncaught \cup {0}
    /\ UNCHANGED <<schema, perguntas, sections, model, exported, libs, acts, alerts>>

\* res.json() resolves: perguntas is set and the form is assembled
ParseResolve ==
    /\ loadPc = "json"
    /\ perguntas' = schema
    /\ sections' = ForEach(schema, 1, sections, 0)
    /\ loadPc' = "done"
    /\ UNCHANGED <<schema, model, exported, libs, acts, alerts, uncaught>>

\* click on a section title
ToggleSection(k) ==
    /\ k \in 1..Len(sections)
    /\ sections' = [sections EXCEPT ![k].open = ~@, ![k].active = ~@]
    /\ UNCHANGED <<schema, perguntas, loadPc, model, exported, libs, acts, alerts, uncaught>>

---------------------------------------------------------------------------
(* User events on the rendered form (renderer.js) *)

\* what the user can leave in a control of the unit
TypedValues(unit) ==
    CASE unit.type = "number" -> {"37", ""}
      [] unit.type = "date" -> {"2024-05-17", ""}
      [] OTHER -> {"febre", ""}

ChoiceValues(unit) == {unit.options[n] : n \in 1..Len(unit.options)}

UnitAt(k, j) == sections[k].units[j]

IsUnit(k, j) == k \in 1..Len(sections) /\ j \in 1..Len(sections[k].units)

\* the listener of a binding: model[key] = e.target.value
Listener(b, v) ==
    /\ model' = Assign(model, b.key, v)
    /\ UNCHANGED <<schema, perguntas, loadPc, sections, exported, libs, acts, alerts, uncaught>>

\* "input" event on the input or textarea of a text, number, date or textarea field
InputField(k, j, v) ==
    /\ IsUnit(k, j)
    /\ v \in TypedValues(UnitAt(k, j))
    /\ \E b \in UnitAt(k, j).binds :
          /\ b.on = "input" /\ b.ctl \in {"input", "textarea"}
          /\ Listener(b, v)

\* "change" event on a radio button of a sim_nao or radio field
ChangeChoice(k, j, c) ==
    /\ IsUnit(k, j)
    /\ c \in ChoiceValues(UnitAt(k, j))
    /\ \E b \in UnitAt(k, j).binds :
          /\ b.on = "change" /\ b.ctl = "radio"
          /\ Listener(b, c)

\* "input" event on the observation textarea of a sim_nao field
InputObs(k, j, o) ==
    /\ IsUnit(k, j)
    /\ o \in TypedValues(UnitAt(k, j))
    /\ \E b \in UnitAt(k, j).binds :
          /\ b.on = "input" /\ b.ctl = "obs"
          /\ Listener(b, o)

\* export handler that empties the form data after the download
ExportJSONAndReset ==
    /\ exported' = <<[name |-> "respostas.json", text |-> Stringify(model)]>>
    /\ model' = <<>>
    /\ UNCHANGED <<schema, perguntas, loadPc, sections, libs, acts, alerts, uncaught>>

\* click on #btnSalvar (renderer.js): download of the model as JSON text
ExportJSON ==
    /\ exported' = <<[name |-> "respostas.json", text |-> Stringify(model)]>>
    /\ UNCHANGED <<schema, perguntas, loadPc, sections, model, libs, acts, alerts, uncaught>>

---------------------------------------------------------------------------
(* Save and Gerar DOCX (script.js) *)

Libs == {"PizZip", "docxtemplater"}

\* date part of the generated file's name
Today == "2024-05-17"

Activation(op, pc, fetched, calls) ==
    [op |-> op, pc |-> pc, fetched |-> fetched, calls |-> calls,
     body |-> "", file |-> "", failed |-> FALSE]

Alert(i, kind) == alerts' = Append(alerts, [by |-> i, kind |-> kind])

\* the handler ends in its catch block: one failure alert
Catch(i) ==
    /\ acts' = [acts EXCEPT ![i].pc = "done", ![i].body = "", ![i].failed = TRUE]
    /\ Alert(i, "failure")
    /\ UNCHANGED uncaught

Awaiting(i, op, pc) ==
    /\ i \in 1..Len(acts)
    /\ acts[i].op = op
    /\ acts[i].pc = pc

\* click on #btnSalvar (script.js): salvarPaciente(model) is called and awaited
SaveClick ==
    /\ Len(acts) < MaxActs
    /\ acts' = Append(acts, Activation("save", "await", 0, 1))
    /\ UNCHANGED <<schema, perguntas, loadPc, sections, model, exported, libs, alerts, uncaught>>

\* the promise of salvarPaciente: it settles without touching the model
salvarPaciente(i, resolved) ==
    /\ Awaiting(i, "save", "await")
    /\ resolved \in BOOLEAN
    /\ UNCHANGED <<model, exported>>

SaveResolve(i) ==
    /\ salvarPaciente(i, TRUE)
    /\ acts' = [acts EXCEPT ![i].pc = "done"]
    /\ Alert(i, "success")
    /\ UNCHANGED <<schema, perguntas, loadPc, sections, libs, uncaught>>

SaveReject(i) ==
    /\ salvarPaciente(i, FALSE)
    /\ Catch(i)
    /\ UNCHANGED <<schema, perguntas, loadPc, sections, libs>>

\* gerarDoc that gives up only when both libraries are missing
GerarDocClickBothMissing ==
    /\ Len(acts) < MaxActs
    /\ IF libs \cap Libs = {}
       THEN /\ acts' = Append(acts, Activation("doc", "done", 0, 0))
            /\ Alert(Len(acts) + 1, "missing")
       ELSE /\ acts' = Append(acts, Activation("doc", "fetch", 1, 0))
            /\ UNCHANGED alerts
    /\ UNCHANGED <<schema, perguntas, loadPc, sections, model, exported, libs, uncaught>>

\* click on #btnGerarDoc: the library check, then fetch("template.docx")
GerarDocClick ==
    /\ Len(acts) < MaxActs
    /\ IF "PizZip" \notin libs \/ "docxtemplater" \notin libs
       THEN /\ acts' = Append(acts, Activation("doc", "done", 0, 0))
            /\ Alert(Len(acts) + 1, "missing")
       ELSE /\ acts' = Append(acts, Activation("doc", "fetch", 1, 0))
            /\ UNCHANGED alerts
    /\ UNCHANGED <<schema, perguntas, loadPc, sections, model, exported, libs, uncaught>>

\* what the server may answer for template.docx
TemplateBodies == {"docx", "baddocx", "notzip"}

TemplateFetchResolve(i, body) ==
    /\ Awaiting(i, "doc", "fetch")
    /\ body \in TemplateBodies
    /\ acts' = [acts EXCEPT ![i].pc = "buffer", ![i].body = body]
    /\ UNCHANGED <<schema, perguntas, loadPc, sections, model, exported, libs, alerts, uncaught>>

TemplateFetchReject(i) ==
    /\ Awaiting(i, "doc", "fetch")
    /\ Catch(i)
    /\ UNCHANGED <<schema, perguntas, loadPc, sections, model, exported, libs>>

BufferReject(i) ==
    /\ Awaiting(i, "doc", "buffer")
    /\ Catch(i)
    /\ UNCHANGED <<schema, perguntas, loadPc, sections, model, exported, libs>>

\* name of the generated file: model.ident_nome || "Paciente", and the date
FileName(m) ==
    LET n == Lookup(m, "ident_nome")
        nome == IF n = <<>> \/ n = <<"">> THEN "Paciente" ELSE n[1]
    IN "Registro_" \o nome \o "_" \o Today \o ".docx"

\* steps 2-6 with the success alert placed before saveAs
BufferResolveEarlyAlert(i, saveAsOk) ==
    /\ Awaiting(i, "doc", "buffer")
    /\ saveAsOk \in BOOLEAN
    /\ IF acts[i].body = "notzip"
       THEN Catch(i)
       ELSE IF acts[i].body = "baddocx"
            THEN /\ acts' = [acts EXCEPT ![i].pc = "done", ![i].body = "", ![i].failed = TRUE, ![i].calls = @ + 1]
                 /\ Alert(i, "failure")
                 /\ UNCHANGED uncaught
            ELSE IF ~saveAsOk
                 THEN /\ acts' = [acts EXCEPT ![i].pc = "done", ![i].body = "", ![i].failed = TRUE,
                                              ![i].calls = @ + 1]
                      /\ alerts' = alerts \o <<[by |-> i, kind |-> "success"],
                                               [by |-> i, kind |-> "failure"]>>
                      /\ UNCHANGED uncaught
                 ELSE /\ acts' = [acts EXCEPT ![i].pc = "done", ![i].body = "", ![i].calls = @ + 1,
                                              ![i].file = FileName(model)]
                      /\ Alert(i, "success")
                      /\ UNCHANGED uncaught
    /\ UNCHANGED <<schema, perguntas, loadPc, sections, model, exported, libs>>

\* arrayBuffer() resolves; steps 2-6 run to the end or to the catch block:
\* PizZip throws on a body that is no zip, docxtemplater on a bad template,
\* saveAs when FileSaver is not loaded
BufferResolve(i, saveAsOk) ==
    /\ Awaiting(i, "doc", "buffer")
    /\ saveAsOk \in BOOLEAN
    /\ IF acts[i].body = "notzip"
       THEN Catch(i)
       ELSE IF acts[i].body = "baddocx" \/ ~saveAsOk
            THEN /\ acts' = [acts EXCEPT ![i].pc = "done", ![i].body = "", ![i].failed = TRUE,
                                         ![i].calls = @ + 1]
                 /\ Alert(i, "failure")
                 /\ UNCHANGED uncaught
            ELSE /\ acts' = [acts EXCEPT ![i].pc = "done", ![i].body = "", ![i].calls = @ + 1,
                                         ![i].file = FileName(model)]
                 /\ Alert(i, "success")
                 /\ UNCHANGED uncaught
    /\ UNCHANGED <<schema, perguntas, loadPc, sections, model, exported, libs>>

---------------------------------------------------------------------------
(* Specifications *)

InitRest(L) ==
    /\ perguntas = <<>>
    /\ loadPc = "fetch"
    /\ sections = <<>>
    /\ model = <<>>
    /\ exported = <<>>
    /\ libs \in L
    /\ acts = <<>>
    /\ alerts = <<>>
    /\ uncaught = {}

\* assembly of every schema of up to MaxLen descriptors
InitAsm == SchemaUpTo(MaxLen) /\ InitRest({Libs})

NextAsm ==
    \/ FetchReject
    \/ \E ok \in BOOLEAN : FetchResolve(ok)
    \/ ParseReject
    \/ ParseResolve

SpecAsm == InitAsm /\ [][NextAsm]_vars

\* filling in the form of every schema of up to MaxForm descriptors
InitForm == SchemaUpTo(MaxForm) /\ InitRest({Libs})

FieldEvent ==
    \E k \in 1..Len(sections) : \E j \in 1..Len(sections[k].units) :
        \/ \E v \in TypedValues(UnitAt(k, j)) : InputField(k, j, v)
        \/ \E c \in ChoiceValues(UnitAt(k, j)) : ChangeChoice(k, j, c)
        \/ \E o \in TypedValues(UnitAt(k, j)) : InputObs(k, j, o)

NextForm ==
    \/ FetchReject
    \/ \E ok \in BOOLEAN : FetchResolve(ok)
    \/ ParseReject
    \/ ParseResolve
    \/ FieldEvent

SpecForm == InitForm /\ [][NextForm]_vars

\* a whole session on one of the example forms, with any set of libraries
Init == schema \in SessionSchemas /\ InitRest(SUBSET Libs)

Next ==
    \/ FetchReject
    \/ \E ok \in BOOLEAN : FetchResolve(ok)
    \/ ParseReject
    \/ ParseResolve
    \/ \E k \in 1..Len(sections) : ToggleSection(k)
    \/ FieldEvent
    \/ ExportJSON
    \/ SaveClick
    \/ \E i \in 1..Len(acts) : SaveResolve(i)
    \/ \E i \in 1..Len(acts) : SaveReject(i)
    \/ GerarDocClick
    \/ \E i \in 1..Len(acts) : \E body \in TemplateBodies : TemplateFetchResolve(i, body)
    \/ \E i \in 1..Len(acts) : TemplateFetchReject(i)
    \/ \E i \in 1..Len(acts) : BufferReject(i)
    \/ \E i \in 1..Len(acts) : \E saveAsOk \in BOOLEAN : BufferResolve(i, saveAsOk)

Spec == Init /\ [][Next]_vars

---------------------------------------------------------------------------
(* Assembly properties *)

KnownTypes == {"text", "number", "date", "textarea", "sim_nao", "radio"}

IsField(item) == item.type \in KnownTypes

GroupPositions(items) == {p \in 1..Len(items) : items[p].type = "group"}

\* number of group descriptors among the first p descriptors
GroupsUpTo(items, p) == Cardinality({q \in GroupPositions(items) : q <= p})

\* position of the k-th group descriptor
GroupAt(items, k) == CHOOSE p \in GroupPositions(items) : GroupsUpTo(items, p) = k

\* positions of the recognized field descriptors that follow exactly k groups
FieldPositions(items, k) ==
    {p \in 1..Len(items) : IsField(items[p]) /\ GroupsUpTo(items, p) = k}

\* the units are those of the descriptors at positions P, in schema order
UnitsAre(units, items, P) ==
    /\ Len(units) = Cardinality(P)
    /\ \A j \in 1..Len(units) :
          \E p \in P :
             /\ Cardinality({q \in P : q <= p}) = j
             /\ units[j].id = items[p].id
             /\ units[j].type = items[p].type
             /\ units[j].label = items[p].text

Assembled == loadPc = "done"

LeadingGroup == Len(perguntas) > 0 /\ perguntas[1].type = "group"

LeadingField == Len(perguntas) > 0 /\ perguntas[1].type # "group"

\* C3: a schema that begins with a group is assembled into one section per
\* group descriptor, labeled with its text, in schema order; every
\* recognized field descriptor yields one unit in the section of the nearest
\* preceding group, and the units of a section are in schema order.
C3_SectionsFollowGroups ==
    (Assembled /\ LeadingGroup) =>
        /\ Len(sections) = Cardinality(GroupPositions(perguntas))
        /\ \A k \in 1..Len(sections) :
              /\ sections[k].label = perguntas[GroupAt(perguntas, k)].text
              /\ UnitsAre(sections[k].units, perguntas, FieldPositions(perguntas, k))

C3_Witness ==
    /\ Assembled
    /\ Len(perguntas) = 4
    /\ perguntas[1].type = "group" /\ perguntas[1].text = "A"
    /\ perguntas[2].type = "text"
    /\ perguntas[3].type = "group" /\ perguntas[3].text = "B"
    /\ perguntas[4].type = "radio"
    /\ Len(sections) = 2
    /\ sections[1].label = "A" /\ Len(sections[1].units) = 1
    /\ sections[2].label = "B" /\ Len(sections[2].units) = 1

\* the default section comes first, is the only section besides those of the
\* group descriptors, and holds the fields that precede the first group
DefaultSectionLabeled(lbl) ==
    (Assembled /\ LeadingField) =>
        /\ Len(sections) = 1 + Cardinality(GroupPositions(perguntas))
        /\ sections[1].label = lbl
        /\ UnitsAre(sections[1].units, perguntas, FieldPositions(perguntas, 0))
        /\ \A k \in 2..Len(sections) :
              sections[k].label = perguntas[GroupAt(perguntas, k - 1)].text

\* C4 as stated: a schema whose first descriptor is not a group gets exactly
\* one default section, labeled "General", holding the leading fields.
C4_DefaultSectionGeneral == DefaultSectionLabeled("General")

\* C4 amended: a schema whose first descriptor is not a group gets exactly
\* one default section, labeled "Geral", holding the leading fields; no
\* second default section is opened for later non-group descriptors.
C4_DefaultSectionGeral == DefaultSectionLabeled("Geral")

C4_Witness ==
    /\ Assembled
    /\ Len(perguntas) >= 2
    /\ perguntas[1].type = "text" /\ perguntas[2].type = "date"
    /\ Len(sections) = 1
    /\ Len(sections[1].units) = 2

\* the units of the form with the label of their section, in document order
RECURSIVE Placement(_, _)
Placement(root, k) ==
    IF k > Len(root) THEN <<>>
    ELSE [j \in 1..Len(root[k].units) |-> <<root[k].label, root[k].units[j]>>]
         \o Placement(root, k + 1)

Recognized(item) == item.type \in KnownTypes \cup {"group"}

HasUnknown == \E p \in 1..Len(perguntas) : ~Recognized(perguntas[p])

\* C5: a descriptor of an unrecognized type yields no unit and no error, and
\* the units of the form (their content, section and order) are those of the
\* schema with the unrecognized descriptors removed.
C5_UnknownTypeSkipped ==
    (Assembled /\ HasUnknown) =>
        /\ uncaught = {}
        /\ \A k \in 1..Len(sections) : \A j \in 1..Len(sections[k].units) :
              sections[k].units[j].type \in KnownTypes
        /\ Placement(sections, 1)
              = Placement(ForEach(SelectSeq(perguntas, Recognized), 1, <<>>, 0), 1)

C5_Witness ==
    /\ Assembled
    /\ Len(perguntas) = 3
    /\ perguntas[1].type = "group"
    /\ ~Recognized(perguntas[2])
    /\ perguntas[3].type = "sim_nao"
    /\ Len(sections) = 1
    /\ Len(sections[1].units) = 1
    /\ sections[1].units[1].id = perguntas[3].id

\* C7: when the schema load fails no section and no field unit exists, the
\* schema stays empty, and no alert has been shown.
C7_FailedLoadShowsNothing ==
    loadPc = "failed" =>
        /\ sections = <<>>
        /\ perguntas = <<>>
        /\ alerts = <<>>

C7_Witness == loadPc = "failed" /\ 0 \in uncaught /\ Len(schema) > 0

---------------------------------------------------------------------------
(* Model-synchronization properties *)

ScalarTypes == {"text", "number", "date", "textarea"}

\* every key but those of K has the same presence and value before and after
OthersUnchanged(K) ==
    \A key \in (Keys(model) \cup Keys(model')) \ K :
        Lookup(model', key) = Lookup(model, key)

\* C1: an input event with value v on the control of a rendered text, number,
\* date or textarea field leaves model[id] = v and every other key of the
\* model unchanged, in presence and in value.
C1_ScalarInputWritesOwnKey ==
    [][\A k \in 1..Len(sections) : \A j \in 1..Len(sections[k].units) :
          UnitAt(k, j).type \in ScalarTypes =>
              \A v \in TypedValues(UnitAt(k, j)) :
                  InputField(k, j, v) =>
                      /\ Lookup(model', UnitAt(k, j).id) = <<v>>
                      /\ OthersUnchanged({UnitAt(k, j).id})]_vars

C1_Witness ==
    /\ Assembled
    /\ Len(perguntas) = 2
    /\ perguntas[1].type = "number" /\ perguntas[2].type = "textarea"
    /\ Lookup(model, perguntas[1].id) = <<"37">>
    /\ Lookup(model, perguntas[2].id) = <<"febre">>

HasObs(unit) == unit.type = "sim_nao" /\ \E b \in unit.binds : b.ctl = "obs"

\* C2: for a rendered sim_nao field with an observation, a change event with
\* value c sets model[id] = c and leaves model[id + "_obs"] as it was, and an
\* input event on the observation with value o sets model[id + "_obs"] = o
\* and leaves model[id] as it was; neither touches any other key.
C2_ChoiceAndObservationIndependent ==
    [][\A k \in 1..Len(sections) : \A j \in 1..Len(sections[k].units) :
          HasObs(UnitAt(k, j)) =>
              /\ \A c \in {"Sim", "Não"} :
                    ChangeChoice(k, j, c) =>
                        /\ Lookup(model', UnitAt(k, j).id) = <<c>>
                        /\ OthersUnchanged({UnitAt(k, j).id})
              /\ \A o \in TypedValues(UnitAt(k, j)) :
                    InputObs(k, j, o) =>
                        /\ Lookup(model', UnitAt(k, j).id \o "_obs") = <<o>>
                        /\ OthersUnchanged({UnitAt(k, j).id \o "_obs"})]_vars

C2_Witness ==
    /\ Assembled
    /\ Len(perguntas) >= 1
    /\ perguntas[1].type = "sim_nao" /\ perguntas[1].has_observation
    /\ Lookup(model, perguntas[1].id) = <<"Não">>
    /\ Lookup(model, perguntas[1].id \o "_obs") = <<"febre">>
    /\ model[1].key = perguntas[1].id \o "_obs"

\* C10: while the schema fetch is pending there is no section, no field unit
\* and no answer, and a JSON export made in that interval is the text of the
\* empty object; sections and answers exist only after a successful load.
C10_NotInteractiveWhilePending ==
    /\ loadPc \in {"fetch", "json"} =>
          /\ sections = <<>>
          /\ model = <<>>
          /\ exported # <<>> => exported[1].text = "{}"
    /\ (sections # <<>> \/ model # <<>>) => loadPc = "done"

C10_Witness ==
    /\ loadPc = "json"
    /\ Len(schema) > 0
    /\ exported = <<[name |-> "respostas.json", text |-> "{}"]>>

---------------------------------------------------------------------------
(* Properties of the triggers *)

AlertsOf(i) == SelectSeq(alerts, LAMBDA n : n.by = i)

LibraryMissing == "PizZip" \notin libs \/ "docxtemplater" \notin libs

\* C6: gerarDoc triggered while PizZip or docxtemplater is absent shows
\* exactly one missing-dependency alert and returns: no template fetch, no
\* use of the templating library, no download, and the same model.
C6_MissingDependencyStopsGeneration ==
    [][(LibraryMissing /\ Len(acts') = Len(acts) + 1 /\ acts'[Len(acts')].op = "doc") =>
          /\ acts'[Len(acts')].pc = "done"
          /\ acts'[Len(acts')].fetched = 0
          /\ acts'[Len(acts')].calls = 0
          /\ acts'[Len(acts')].file = ""
          /\ alerts' = Append(alerts, [by |-> Len(acts'), kind |-> "missing"])
          /\ model' = model
          /\ exported' = exported]_vars

C6_Witness ==
    /\ libs = {"docxtemplater"}
    /\ model # <<>>
    /\ Len(acts) >= 1
    /\ acts[1].op = "doc"
    /\ AlertsOf(1) = <<[by |-> 1, kind |-> "missing"]>>

ModelWrite == FieldEvent

OtherTrigger ==
    \/ \E k \in 1..Len(sections) : ToggleSection(k)
    \/ ExportJSON
    \/ SaveClick
    \/ GerarDocClick
    \/ \E i \in 1..Len(acts) :
          \/ SaveResolve(i) \/ SaveReject(i)
          \/ TemplateFetchReject(i) \/ BufferReject(i)
          \/ \E body \in TemplateBodies : TemplateFetchResolve(i, body)
          \/ \E saveAsOk \in BOOLEAN : BufferResolve(i, saveAsOk)

\* C8: the model starts empty; a step that changes it is the listener of a
\* field unit and is no section click, JSON export, Save or Gerar DOCX step
\* (nor one of their continuations); no key is ever removed.
C8_ModelChangedOnlyByBindings ==
    /\ model = <<>>
    /\ [][/\ model' # model => (ModelWrite /\ ~OtherTrigger)
          /\ Keys(model) \subseteq Keys(model')]_vars

C8_Witness ==
    /\ model # <<>>
    /\ exported # <<>> /\ exported[1].text # "{}"
    /\ \E k \in 1..Len(sections) : sections[k].open
    /\ \E i \in 1..Len(acts) : acts[i].op = "save" /\ acts[i].pc = "done"
    /\ \E i \in 1..Len(acts) : acts[i].op = "doc" /\ acts[i].file # ""

Complete(a) ==
    IF a.op = "save" THEN a.calls = 1
    ELSE a.fetched = 1 /\ a.calls = 1 /\ a.file # ""

\* C9: every activation of Save and of Gerar DOCX calls its collaborator at
\* most once, lets no error escape, shows nothing before it ends and exactly
\* one alert when it ends: a success alert only if every step completed, a
\* failure alert if a step failed.
C9_OneNotificationPerActivation ==
    \A i \in 1..Len(acts) :
        /\ acts[i].calls <= 1
        /\ acts[i].fetched <= 1
        /\ i \notin uncaught
        /\ acts[i].pc # "done" => AlertsOf(i) = <<>>
        /\ acts[i].pc = "done" =>
              /\ Len(AlertsOf(i)) = 1
              /\ AlertsOf(i)[1].kind = "success" => (~acts[i].failed /\ Complete(acts[i]))
              /\ acts[i].failed => AlertsOf(i)[1].kind = "failure"

C9_Witness ==
    /\ Len(acts) = 2
    /\ acts[1].op = "doc" /\ acts[1].pc = "done" /\ acts[1].failed
    /\ acts[1].fetched = 1 /\ acts[1].calls = 1
    /\ acts[2].op = "save" /\ acts[2].pc = "done" /\ ~acts[2].failed
    /\ alerts = <<[by |-> 2, kind |-> "success"], [by |-> 1, kind |-> "failure"]>>

=============================================================================
